---- MODULE Spec2Model ----
(***************************************************************************)
(* Model of the ABySS paired de Bruijn graph assembler driver              *)
(* (PairedDBG/abyss-paired-dbg.cc): the multi-k loop of main(), the        *)
(* simplification pipeline of assemble() and the graph store it drives.    *)
(*                                                                         *)
(* The driver is translated statement by statement from the source. The    *)
(* graph algorithms it calls (AssemblyAlgorithms, SequenceCollectionHash)  *)
(* are defined in other translation units; they are modelled from their    *)
(* description in the specification, on a single strand (no reverse        *)
(* complement), over the alphabet A=0 C=1 G=2 T=3.                         *)
(***************************************************************************)
EXTENDS Integers, Sequences, FiniteSets, TLC

\* ------------------------------------------------------------------ bounds

\* Width in bits of `unsigned` in the model (the source's is 32).
UBits == 3
\* Largest k-mer length the user configures for kMin / kMax.
MaxK == 3
\* Saturation value of a node's coverage counter.
MaxCov == 3
\* Longest run of assemble() calls the history records.
MaxCalls == 3

RECURSIVE Pow2(_)
Pow2(n) == IF n = 0 THEN 1 ELSE 2 * Pow2(n - 1)

UMod == Pow2(UBits)
\* (unsigned)-1
UMax == UMod - 1

Min(a, b) == IF a < b THEN a ELSE b

\* The element of a singleton. { e(v) : v \in {x} } evaluates x once and
\* names its value v: the call-by-value of the source.
The(S) == CHOOSE r \in S : TRUE

Bases == 0 .. 3

\* ------------------------------------------------------------------ paths

NoPath == <<"", 0>>
KPath(n) == <<"contigs-k", n>>
contigsPath == <<"contigs.fa", 0>>
GraphDot == <<"graph.dot", 0>>

\* ------------------------------------------------------------ graph store

\* The k-mers (windows of length kk) of a sequence; none when kk is 0 or
\* the sequence is shorter than kk.
Kmers(seq, kk) ==
    IF kk = 0 \/ Len(seq) < kk THEN {}
    ELSE { SubSeq(seq, i, i + kk - 1) : i \in 1 .. (Len(seq) - kk + 1) }

Occ(seq, kk, x) ==
    Cardinality({ i \in 1 .. (Len(seq) - kk + 1) : SubSeq(seq, i, i + kk - 1) = x })

NewNode(c) ==
    [cov |-> c, out |-> {}, inn |-> {}, sense |-> FALSE, anti |-> FALSE, del |-> FALSE]

\* insertOrIncrement for every k-mer of one sequence; the counter saturates.
loadOne(s, seq, kk) ==
    LET ks == Kmers(seq, kk)
    IN  [ x \in (DOMAIN s) \cup ks |->
            IF x \in DOMAIN s
            THEN IF x \in ks
                 THEN [s[x] EXCEPT !.cov = Min(MaxCov, @ + Occ(seq, kk, x))]
                 ELSE s[x]
            ELSE NewNode(Min(MaxCov, Occ(seq, kk, x))) ]

RECURSIVE loadSequences(_, _, _)
loadSequences(s, seqs, kk) ==
    IF seqs = <<>> THEN s
    ELSE The({ loadSequences(s1, Tail(seqs), kk) : s1 \in {loadOne(s, Head(seqs), kk)} })

size(s) == Cardinality(DOMAIN s)
empty(s) == DOMAIN s = {}
Live(s) == { x \in DOMAIN s : ~s[x].del }

\* The neighbour k-mers an extension mask names.
Front(x) == SubSeq(x, 1, Len(x) - 1)
SuccOf(x, b) == Tail(x) \o <<b>>
PredOf(x, b) == <<b>> \o Front(x)

\* Sets each live node's extension mask from the presence of its neighbours.
generateAdjacency(s) ==
    [ x \in DOMAIN s |->
        IF s[x].del THEN s[x]
        ELSE [s[x] EXCEPT
                !.out = { b \in Bases : SuccOf(x, b) \in Live(s) },
                !.inn = { b \in Bases : PredOf(x, b) \in Live(s) }] ]

\* erase: tombstones the nodes of R and clears the extension bits that
\* point to them (removeSequenceAndExtensions).
removeNodes(s, R0) ==
    The({ [ x \in DOMAIN s |->
              IF x \in R
              THEN [s[x] EXCEPT !.del = TRUE, !.out = {}, !.inn = {}]
              ELSE [s[x] EXCEPT
                      !.out = { b \in @ : SuccOf(x, b) \notin R },
                      !.inn = { b \in @ : PredOf(x, b) \notin R }] ]
          : R \in {R0} })

\* compact: physically removes the tombstoned entries.
cleanup(s) == [ x \in Live(s) |-> s[x] ]

wipeFlag(s) == [ x \in DOMAIN s |-> [s[x] EXCEPT !.sense = FALSE, !.anti = FALSE] ]

Marked(s) == { x \in DOMAIN s : s[x].sense \/ s[x].anti }

\* ------------------------------------------------- simplification passes

\* The node that follows x on a non-branching chain: x has a single,
\* unmarked sense extension and that neighbour a single, unmarked antisense
\* extension.
NextOf(s, x) ==
    IF Cardinality(s[x].out) = 1 /\ ~s[x].sense
    THEN LET y == SuccOf(x, CHOOSE b \in s[x].out : TRUE)
         IN  IF y \in Live(s) /\ Cardinality(s[y].inn) = 1 /\ ~s[y].anti
             THEN {y} ELSE {}
    ELSE {}

HasPrev(s, x) == \E y \in Live(s) : NextOf(s, y) = {x}

RECURSIVE ChainFrom(_, _)
ChainFrom(s, x) ==
    IF NextOf(s, x) = {} THEN <<x>>
    ELSE <<x>> \o ChainFrom(s, CHOOSE y \in NextOf(s, x) : TRUE)

\* The maximal non-branching chains, each walked from its chain start.
Chains(s) == { ChainFrom(s, x) : x \in { y \in Live(s) : ~HasPrev(s, y) } }

NodesOf(c) == { c[i] : i \in 1 .. Len(c) }

RECURSIVE SumCov(_, _)
SumCov(s, c) == IF c = <<>> THEN 0 ELSE s[Head(c)].cov + SumCov(s, Tail(c))

\* A node is terminal when one of its two directions has no extension.
Terminal(s, x) == s[x].out = {} \/ s[x].inn = {}

\* Tip erosion: removal waves of the terminal nodes whose coverage is below
\* the threshold, until a wave removes nothing; n counts the removed nodes.
ErodeSet(s, e) == { x \in Live(s) : Terminal(s, x) /\ s[x].cov < e }

RECURSIVE erodeWaves(_, _, _)
erodeWaves(s, e, n) ==
    The({ IF R = {} THEN [g |-> s, n |-> n]
          ELSE The({ erodeWaves(s1, e, n + Cardinality(R)) : s1 \in {removeNodes(s, R)} })
          : R \in {ErodeSet(s, e)} })

erodeEnds(s, e) == erodeWaves(s, e, 0)

\* A dead-end branch shorter than the trim length: it starts or ends at a
\* node with no extension and does not end at a fork of its own direction.
Trimmable(s, c, t) ==
    /\ Len(c) < t
    /\ \/ s[c[1]].inn = {} /\ Cardinality(s[c[Len(c)]].out) <= 1
       \/ s[c[Len(c)]].out = {} /\ Cardinality(s[c[1]].inn) <= 1

TrimSet(s, t) == UNION { NodesOf(c) : c \in { d \in Chains(s) : Trimmable(s, d, t) } }

RECURSIVE performTrim(_, _)
performTrim(s, t) ==
    The({ IF R = {} THEN s
          ELSE The({ performTrim(s1, t) : s1 \in {removeNodes(s, R)} })
          : R \in {TrimSet(s, t)} })

\* Flags the nodes with more than one extension in a direction.
markAmbiguous(s) ==
    [ x \in DOMAIN s |->
        IF s[x].del THEN s[x]
        ELSE [s[x] EXCEPT
                !.sense = @ \/ Cardinality(s[x].out) > 1,
                !.anti = @ \/ Cardinality(s[x].inn) > 1] ]

\* Cuts the extensions of every marked direction, on both of their ends.
splitAmbiguous(s) ==
    [ x \in DOMAIN s |->
        IF s[x].del THEN s[x]
        ELSE [s[x] EXCEPT
                !.out = IF s[x].sense THEN {}
                        ELSE { b \in @ : ~s[SuccOf(x, b)].anti },
                !.inn = IF s[x].anti THEN {}
                        ELSE { b \in @ : ~s[PredOf(x, b)].sense }] ]

\* The nucleotide sequence of a chain: every step adds one base.
ContigSeq(c) ==
    c[1] \o [ i \in 1 .. (Len(c) - 1) |-> c[i + 1][Len(c[i + 1])] ]

RECURSIVE SetToSeq(_)
SetToSeq(S) ==
    IF S = {} THEN <<>>
    ELSE LET x == CHOOSE y \in S : TRUE IN <<x>> \o SetToSeq(S \ {x})

\* Contig extraction. With a positive coverage threshold the chains whose
\* mean k-mer coverage is below it are removed from the store.
LowCoverage(s, cs, cov) ==
    IF cov > 0 THEN { c \in cs : SumCov(s, c) < cov * Len(c) } ELSE {}

AssemblyAlgorithms_assemble(s, cov) ==
    The({ The({ [g       |-> removeNodes(s, UNION { NodesOf(c) : c \in low }),
                 n       |-> Cardinality(cs \ low),
                 contigs |-> { ContigSeq(c) : c \in cs \ low }]
                : low \in {LowCoverage(s, cs, cov)} })
          : cs \in {Chains(s)} })

\* The branch that leaves fork x by base b, and the node it merges into.
Branch(s, x, b) == ChainFrom(s, SuccOf(x, b))
MergeOf(s, c) ==
    LET l == c[Len(c)]
    IN  IF Cardinality(s[l].out) = 1
        THEN { SuccOf(l, CHOOSE b \in s[l].out : TRUE) }
        ELSE {}

\* The branches that lose a bubble: two branches of one fork that merge into
\* the same node within the length bound; the lower coverage loses, and on
\* a tie the branch of the larger base.
Losers(s, len) ==
    { c \in UNION { { Branch(s, x, b) : b \in s[x].out } :
                    x \in { y \in Live(s) : Cardinality(s[y].out) > 1 } } :
        \E x \in Live(s) : \E b1, b2 \in s[x].out :
            /\ b1 # b2
            /\ c = Branch(s, x, b2)
            /\ LET d == Branch(s, x, b1)
               IN  /\ Cardinality(s[c[1]].inn) = 1
                   /\ Cardinality(s[d[1]].inn) = 1
                   /\ Len(c) <= len /\ Len(d) <= len
                   /\ MergeOf(s, c) # {} /\ MergeOf(s, c) = MergeOf(s, d)
                   /\ NodesOf(c) \cap NodesOf(d) = {}
                   /\ \/ SumCov(s, c) < SumCov(s, d)
                      \/ SumCov(s, c) = SumCov(s, d) /\ b1 < b2 }

AssemblyAlgorithms_popBubbles(s, len) ==
    The({ [g |-> removeNodes(s, UNION { NodesOf(c) : c \in L }), n |-> Cardinality(L)]
          : L \in {Losers(s, len)} })

\* The store after removeLowCoverageContigs (lines 38-43): markAmbiguous,
\* the extraction that removes the low-coverage contigs, splitAmbiguous.
LowCoverageRemoved(s, cov) ==
    The({ splitAmbiguous(a)
          : a \in { AssemblyAlgorithms_assemble(m, cov).g : m \in {markAmbiguous(s)} } })

\* ------------------------------------------------------------------ state

VARIABLES
    pc,          \* position of the driver in main() / assemble()
    opt,         \* the process-wide options (namespace opt)
    k,           \* main()'s loop counter, an unsigned
    pathIn,      \* assemble()'s arguments
    pathOut,
    g,           \* assemble()'s SequenceCollectionHash
    numLoaded,
    nContigs,
    numRemoved,
    sweep,       \* what the two erodeEnds calls of the erosion stage returned
    files,       \* the file system: path -> the sequences written to it
    fatal,       \* the error the process exited with
    calls,       \* history: the assemble() calls made so far
    trace,       \* history: the operations of the current assemble() call
    written,     \* history: the files created by the current assemble() call
    user         \* history: the options as parsed from the command line

\* The state of abyss-align (src/Align/mergepairs.cc), a program of its own.
VARIABLES
    mpc,         \* position of abyss-align in alignFiles()
    mopt,        \* opt::min_matches and opt::identity
    stats,       \* the statistics counters
    rec1,        \* the pair of records read last
    rec2,
    overlaps,    \* the vector of candidate overlaps of the pair
    cands,       \* history: the vector as alignOverlap returned it
    last,        \* history: what was written for the pair handled last
    pairs        \* history: the number of pairs read

dvars == <<pc, opt, k, pathIn, pathOut, g, numLoaded, nContigs, numRemoved,
           sweep, files, fatal, calls, trace, written, user>>

mvars == <<mpc, mopt, stats, rec1, rec2, overlaps, cands, last, pairs>>

vars == <<dvars, mvars>>

\* Width in bits of size_t in the model.
SizeBits == 6

\* Values the options take on the command line.
StepVals == {0, 1, 2, UMax}
ErodeVals == {0, 2}
CoverageVals == {0, 2}
TrimVals == {1, 3}
BubbleVals == {0, 3}
\* Thresholds setCoverageParameters derives from the coverage histogram.
AutoVals == {0, 2}

\* The read files: each a list of reads.
ReadSets ==
    { << <<0, 1, 2, 3>> >>,                                   \* ACGT
      << <<0, 1, 2, 3>>, <<0, 1, 2, 3>> >>,                   \* ACGT twice
      << <<0, 1, 0>> >>,                                      \* ACA
      << <<0, 1>> >>,                                         \* AC
      \* AACAGAT twice and ACAT: a low-coverage tip at k = 3
      << <<0, 0, 1, 0, 2, 0, 3>>, <<0, 0, 1, 0, 2, 0, 3>>, <<0, 1, 0, 3>> >>,
      \* AACAGAT twice and AACCGAT: a bubble at k = 3
      << <<0, 0, 1, 0, 2, 0, 3>>, <<0, 0, 1, 0, 2, 0, 3>>,
         <<0, 0, 1, 1, 2, 0, 3>> >>,
      \* AACAGAT twice and ACAA: a low-coverage node inside a cycle at k = 3
      << <<0, 0, 1, 0, 2, 0, 3>>, <<0, 0, 1, 0, 2, 0, 3>>, <<0, 1, 0, 0>> >> }

Options ==
    [ kMin : 1 .. MaxK, kMax : 1 .. MaxK, kStep : StepVals, kmerSize : {0},
      erode : ErodeVals, erodeStrand : {UMax}, coverage : CoverageVals,
      trimLen : TrimVals, bubbleLen : BubbleVals,
      graphPath : {NoPath, GraphDot}, inFiles : ReadSets,
      pinned : {{}, {"erode", "trimLen", "bubbleLen"}} ]

NoRecord == [id |-> 0, seq |-> <<>>, qual |-> <<>>]
ZeroStats ==
    [total_reads |-> 0, merged_reads |-> 0, unmerged_reads |-> 0,
     no_alignment |-> 0, too_many_aligns |-> 0, low_matches |-> 0,
     has_indel |-> 0, pid_low |-> 0]

\* abyss-align is not running.
MergeOff ==
    /\ mpc = "off"
    /\ mopt = [min_matches |-> 0, identity |-> <<0, 1>>]
    /\ stats = ZeroStats
    /\ rec1 = NoRecord
    /\ rec2 = NoRecord
    /\ overlaps = <<>>
    /\ cands = <<>>
    /\ last = [kind |-> "none"]
    /\ pairs = 0

InitWith(O) ==
    /\ opt \in { o \in O : o.kMin <= o.kMax }
    /\ user = opt
    /\ k = opt.kMin
    /\ pc = "main"
    /\ pathIn = NoPath
    /\ pathOut = NoPath
    /\ g = <<>>
    /\ numLoaded = 0
    /\ nContigs = 0
    /\ numRemoved = 0
    /\ sweep = <<0, 0>>
    /\ files = <<>>
    /\ fatal = "none"
    /\ calls = <<>>
    /\ trace = <<>>
    /\ written = {}
    /\ MergeOff

Init == InitWith(Options)

\* The configurations of the termination check: every combination of the
\* erosion, coverage and bubble options, automatic values included, over a
\* k range that steps by one up to MaxK.
LiveOptions ==
    [ kMin : (MaxK - 1) .. MaxK, kMax : {MaxK}, kStep : {1}, kmerSize : {0},
      erode : ErodeVals \cup {UMax}, erodeStrand : {UMax},
      coverage : CoverageVals \cup {-1},
      trimLen : {1}, bubbleLen : BubbleVals,
      graphPath : {NoPath}, inFiles : ReadSets, pinned : {{}} ]

LiveInit == InitWith(LiveOptions)

Ev(op, s) ==
    [op |-> op, size |-> size(s), live |-> Cardinality(Live(s)),
     marked |-> Cardinality(Marked(s))]

WriteFile(fs, path, content) ==
    [ p \in (DOMAIN fs) \cup {path} |-> IF p = path THEN content ELSE fs[p] ]

\* --------------------------------------------------------------- main()

\* A reset that leaves the options the user pinned untouched.
ResetOptionsUnlessPinned(o, kk) ==
    IF kk > o.kMin
    THEN [o EXCEPT !.kmerSize = kk,
                   !.erode = IF "erode" \in o.pinned THEN @ ELSE UMax,
                   !.erodeStrand = UMax,
                   !.coverage = -1,
                   !.trimLen = IF "trimLen" \in o.pinned THEN @ ELSE kk,
                   !.bubbleLen = IF "bubbleLen" \in o.pinned THEN @
                                 ELSE (3 * kk) % UMod]
    ELSE [o EXCEPT !.kmerSize = kk]

\* Lines 168-175: the options are reset to their defaults after the first k.
ResetOptions(o, kk) ==
    IF kk > o.kMin
    THEN [o EXCEPT !.kmerSize = kk, !.erode = UMax, !.erodeStrand = UMax,
                   !.coverage = -1, !.trimLen = kk,
                   !.bubbleLen = (3 * kk) % UMod]
    ELSE [o EXCEPT !.kmerSize = kk]

\* Lines 178-179: the seed file is the contig file of k - kStep.
SeedPath(o, kk) ==
    IF kk > o.kMin THEN KPath((kk + UMod - o.kStep) % UMod) ELSE NoPath

\* Lines 180-183.
OutPath(o, kk) == IF kk < o.kMax THEN KPath(kk) ELSE contigsPath

\* One iteration of the loop of line 161, up to the call of assemble().
MainLoopEnter ==
    /\ pc = "main"
    /\ k <= opt.kMax
    /\ Len(calls) < MaxCalls
    /\ opt' = ResetOptions(opt, k)
    /\ pathIn' = SeedPath(opt, k)
    /\ pathOut' = OutPath(opt, k)
    /\ calls' = Append(calls, [k |-> k, pathIn |-> pathIn', pathOut |-> pathOut'])
    /\ g' = <<>>
    /\ trace' = <<>>
    /\ written' = {}
    /\ sweep' = <<0, 0>>
    /\ pc' = "load"
    /\ UNCHANGED <<k, numLoaded, nContigs, numRemoved, files, fatal, user, mvars>>

\* The loop condition fails: main() returns 0.
MainLoopExit ==
    /\ pc = "main"
    /\ k > opt.kMax
    /\ pc' = "done"
    /\ UNCHANGED <<opt, k, pathIn, pathOut, g, numLoaded, nContigs, numRemoved,
                   sweep, files, fatal, calls, trace, written, user, mvars>>

\* ------------------------------------------------------------ assemble()

SeedSeqs == IF pathIn \in DOMAIN files THEN SetToSeq(files[pathIn]) ELSE <<>>

\* Lines 73-84: the seed contigs, if any, then the read files are loaded.
Load ==
    /\ pc = "load"
    /\ \E g1 \in {IF pathIn # NoPath THEN loadSequences(g, SeedSeqs, k) ELSE g} :
       \E g2 \in {loadSequences(g1, opt.inFiles, k)} :
          /\ g' = g2
          /\ numLoaded' = size(g2)
          /\ trace' = trace
                       \o (IF pathIn # NoPath THEN <<Ev("loadSeed", g1)>> ELSE <<>>)
                       \o <<Ev("loadReads", g2)>>
    /\ pc' = "empty_check"
    /\ UNCHANGED <<opt, k, pathIn, pathOut, nContigs, numRemoved, sweep, files,
                   fatal, calls, written, user, mvars>>

\* The empty-store error reported without leaving the process.
NoUsableSequenceNoExit ==
    /\ pc = "empty_check"
    /\ empty(g)
    /\ fatal' = "FatalEmptyGraph"
    /\ pc' = "adjacency"
    /\ UNCHANGED <<opt, k, pathIn, pathOut, g, numLoaded, nContigs, numRemoved,
                   sweep, files, calls, trace, written, user, mvars>>

\* Lines 85-88: "error: no usable sequence".
NoUsableSequence ==
    /\ pc = "empty_check"
    /\ empty(g)
    /\ fatal' = "FatalEmptyGraph"
    /\ pc' = "exit_failure"
    /\ UNCHANGED <<opt, k, pathIn, pathOut, g, numLoaded, nContigs, numRemoved,
                   sweep, files, calls, trace, written, user, mvars>>

\* Lines 90-91: the thresholds left on automatic are derived from the
\* coverage histogram.
SetCoverageParameters ==
    /\ pc = "empty_check"
    /\ ~empty(g)
    /\ \E e \in (IF opt.erode = UMax THEN AutoVals ELSE {opt.erode}) :
       \E c \in (IF opt.coverage < 0 THEN AutoVals ELSE {opt.coverage}) :
          opt' = [opt EXCEPT !.erode = e, !.coverage = c,
                             !.erodeStrand = IF @ = UMax THEN 0 ELSE @]
    /\ pc' = "adjacency"
    /\ UNCHANGED <<k, pathIn, pathOut, g, numLoaded, nContigs, numRemoved,
                   sweep, files, fatal, calls, trace, written, user, mvars>>

\* Lines 93-94.
GenerateAdjacency ==
    /\ pc = "adjacency"
    /\ g' = generateAdjacency(g)
    /\ trace' = Append(trace, Ev("generateAdjacency", g'))
    /\ pc' = "erode"
    /\ UNCHANGED <<opt, k, pathIn, pathOut, numLoaded, nContigs, numRemoved,
                   sweep, files, fatal, calls, written, user, mvars>>

\* The erosion stage without its first sweep.
ErodeFirstSkipped ==
    /\ pc = "erode"
    /\ opt.erode > 0
    /\ sweep' = <<0, 0>>
    /\ pc' = "erode_assert"
    /\ UNCHANGED <<opt, k, pathIn, pathOut, g, numLoaded, nContigs, numRemoved,
                   files, fatal, calls, trace, written, user, mvars>>

\* Line 99: the erosion sweep proper.
ErodeFirst ==
    /\ pc = "erode"
    /\ opt.erode > 0
    /\ \E r \in {erodeEnds(g, opt.erode)} :
          /\ g' = r.g
          /\ sweep' = <<r.n, 0>>
    /\ trace' = Append(trace, Ev("erodeEnds", g'))
    /\ pc' = "erode_assert"
    /\ UNCHANGED <<opt, k, pathIn, pathOut, numLoaded, nContigs, numRemoved,
                   files, fatal, calls, written, user, mvars>>

\* Line 97, the test fails: no erosion.
SkipErode ==
    /\ pc = "erode"
    /\ ~(opt.erode > 0)
    /\ pc' = "trim"
    /\ UNCHANGED <<opt, k, pathIn, pathOut, g, numLoaded, nContigs, numRemoved,
                   sweep, files, fatal, calls, trace, written, user, mvars>>

\* Line 100: assert(erodeEnds(&g) == 0), the verification sweep.
ErodeAssert ==
    /\ pc = "erode_assert"
    /\ \E r \in {erodeEnds(g, opt.erode)} :
          /\ g' = r.g
          /\ sweep' = <<sweep[1], r.n>>
          /\ pc' = IF r.n = 0 THEN "erode_cleanup" ELSE "abort"
    /\ trace' = Append(trace, Ev("erodeEnds", g'))
    /\ UNCHANGED <<opt, k, pathIn, pathOut, numLoaded, nContigs, numRemoved,
                   files, fatal, calls, written, user, mvars>>

\* Line 101.
ErodeCleanup ==
    /\ pc = "erode_cleanup"
    /\ g' = cleanup(g)
    /\ trace' = Append(trace, Ev("cleanup", g'))
    /\ pc' = "trim"
    /\ UNCHANGED <<opt, k, pathIn, pathOut, numLoaded, nContigs, numRemoved,
                   sweep, files, fatal, calls, written, user, mvars>>

\* Line 104.
Trim ==
    /\ pc = "trim"
    /\ g' = performTrim(g, opt.trimLen)
    /\ trace' = Append(trace, Ev("performTrim", g'))
    /\ pc' = "trim_cleanup"
    /\ UNCHANGED <<opt, k, pathIn, pathOut, numLoaded, nContigs, numRemoved,
                   sweep, files, fatal, calls, written, user, mvars>>

\* Line 105.
TrimCleanup ==
    /\ pc = "trim_cleanup"
    /\ g' = cleanup(g)
    /\ trace' = Append(trace, Ev("cleanup", g'))
    /\ pc' = "coverage"
    /\ UNCHANGED <<opt, k, pathIn, pathOut, numLoaded, nContigs, numRemoved,
                   sweep, files, fatal, calls, written, user, mvars>>

\* Low-coverage removal that leaves the threshold in place.
removeLowCoverageContigsKeep ==
    /\ pc = "coverage"
    /\ opt.coverage > 0
    /\ g' = LowCoverageRemoved(g, opt.coverage)
    /\ trace' = Append(trace, Ev("removeLowCoverageContigs", g'))
    /\ pc' = "wipe"
    /\ UNCHANGED <<opt, k, pathIn, pathOut, numLoaded, nContigs, numRemoved,
                   sweep, files, fatal, calls, written, user, mvars>>

\* Lines 36-46, called at line 108: the contigs of low mean coverage are
\* removed and the threshold is zeroed.
removeLowCoverageContigs ==
    /\ pc = "coverage"
    /\ opt.coverage > 0
    /\ g' = LowCoverageRemoved(g, opt.coverage)
    /\ opt' = [opt EXCEPT !.coverage = 0]
    /\ trace' = Append(trace, Ev("removeLowCoverageContigs", g'))
    /\ pc' = "wipe"
    /\ UNCHANGED <<k, pathIn, pathOut, numLoaded, nContigs, numRemoved,
                   sweep, files, fatal, calls, written, user, mvars>>

\* The coverage stage without the reset of the mark flags.
WipeFlagSkipped ==
    /\ pc = "wipe"
    /\ pc' = "coverage_cleanup"
    /\ UNCHANGED <<opt, k, pathIn, pathOut, g, numLoaded, nContigs, numRemoved,
                   sweep, files, fatal, calls, trace, written, user, mvars>>

\* Line 109.
WipeFlag ==
    /\ pc = "wipe"
    /\ g' = wipeFlag(g)
    /\ trace' = Append(trace, Ev("wipeFlag", g'))
    /\ pc' = "coverage_cleanup"
    /\ UNCHANGED <<opt, k, pathIn, pathOut, numLoaded, nContigs, numRemoved,
                   sweep, files, fatal, calls, written, user, mvars>>

\* The coverage stage falling through to bubble popping instead of
\* restarting from erosion.
CoverageCleanupNoRestart ==
    /\ pc = "coverage_cleanup"
    /\ g' = cleanup(g)
    /\ trace' = Append(trace, Ev("cleanup", g'))
    /\ pc' = "bubbles"
    /\ UNCHANGED <<opt, k, pathIn, pathOut, numLoaded, nContigs, numRemoved,
                   sweep, files, fatal, calls, written, user, mvars>>

\* The restart placed before the adjacency generation instead of at the
\* erode label.
CoverageCleanupRegenerate ==
    /\ pc = "coverage_cleanup"
    /\ g' = cleanup(g)
    /\ trace' = Append(trace, Ev("cleanup", g'))
    /\ pc' = "adjacency"
    /\ UNCHANGED <<opt, k, pathIn, pathOut, numLoaded, nContigs, numRemoved,
                   sweep, files, fatal, calls, written, user, mvars>>

\* Lines 110-111: cleanup, then goto erode.
CoverageCleanup ==
    /\ pc = "coverage_cleanup"
    /\ g' = cleanup(g)
    /\ trace' = Append(trace, Ev("cleanup", g'))
    /\ pc' = "erode"
    /\ UNCHANGED <<opt, k, pathIn, pathOut, numLoaded, nContigs, numRemoved,
                   sweep, files, fatal, calls, written, user, mvars>>

\* Line 107, the test fails.
SkipCoverage ==
    /\ pc = "coverage"
    /\ ~(opt.coverage > 0)
    /\ pc' = "bubbles"
    /\ UNCHANGED <<opt, k, pathIn, pathOut, g, numLoaded, nContigs, numRemoved,
                   sweep, files, fatal, calls, trace, written, user, mvars>>

\* Bubble popping without the test of opt::bubbleLen.
popBubblesUnguarded ==
    /\ pc = "bubbles"
    /\ g' = AssemblyAlgorithms_popBubbles(g, opt.bubbleLen).g
    /\ trace' = Append(trace, Ev("popBubbles", g'))
    /\ pc' = "write_graph"
    /\ UNCHANGED <<opt, k, pathIn, pathOut, numLoaded, nContigs, numRemoved,
                   sweep, files, fatal, calls, written, user, mvars>>

\* Lines 48-56, called at line 115.
popBubbles ==
    /\ pc = "bubbles"
    /\ opt.bubbleLen > 0
    /\ g' = AssemblyAlgorithms_popBubbles(g, opt.bubbleLen).g
    /\ trace' = Append(trace, Ev("popBubbles", g'))
    /\ pc' = "write_graph"
    /\ UNCHANGED <<opt, k, pathIn, pathOut, numLoaded, nContigs, numRemoved,
                   sweep, files, fatal, calls, written, user, mvars>>

\* Line 114, the test fails.
SkipBubbles ==
    /\ pc = "bubbles"
    /\ ~(opt.bubbleLen > 0)
    /\ pc' = "write_graph"
    /\ UNCHANGED <<opt, k, pathIn, pathOut, g, numLoaded, nContigs, numRemoved,
                   sweep, files, fatal, calls, trace, written, user, mvars>>

\* The graph dump without the test of the path.
write_graphAlways ==
    /\ pc = "write_graph"
    /\ files' = WriteFile(files, opt.graphPath, Live(g))
    /\ written' = written \cup {opt.graphPath}
    /\ trace' = Append(trace, Ev("write_graph", g))
    /\ pc' = "mark"
    /\ UNCHANGED <<opt, k, pathIn, pathOut, g, numLoaded, nContigs, numRemoved,
                   sweep, fatal, calls, user, mvars>>

\* Lines 58-66, called at line 117: nothing with an empty path, else the
\* graph is written to the file.
write_graph ==
    /\ pc = "write_graph"
    /\ IF opt.graphPath = NoPath
       THEN UNCHANGED <<files, written, trace>>
       ELSE /\ files' = WriteFile(files, opt.graphPath, Live(g))
            /\ written' = written \cup {opt.graphPath}
            /\ trace' = Append(trace, Ev("write_graph", g))
    /\ pc' = "mark"
    /\ UNCHANGED <<opt, k, pathIn, pathOut, g, numLoaded, nContigs, numRemoved,
                   sweep, fatal, calls, user, mvars>>

\* Line 119.
MarkAmbiguous ==
    /\ pc = "mark"
    /\ g' = markAmbiguous(g)
    /\ trace' = Append(trace, Ev("markAmbiguous", g'))
    /\ pc' = "open_writer"
    /\ UNCHANGED <<opt, k, pathIn, pathOut, numLoaded, nContigs, numRemoved,
                   sweep, files, fatal, calls, written, user, mvars>>

\* Line 120: the FastaWriter opens (creates, truncates) the output file.
OpenWriter ==
    /\ pc = "open_writer"
    /\ files' = WriteFile(files, pathOut, {})
    /\ written' = written \cup {pathOut}
    /\ trace' = Append(trace, Ev("FastaWriter", g))
    /\ pc' = "extract"
    /\ UNCHANGED <<opt, k, pathIn, pathOut, g, numLoaded, nContigs, numRemoved,
                   sweep, fatal, calls, user, mvars>>

\* Line 121: the contigs are extracted and written.
Extract ==
    /\ pc = "extract"
    /\ \E r \in {AssemblyAlgorithms_assemble(g, opt.coverage)} :
          /\ g' = r.g
          /\ nContigs' = r.n
          /\ files' = WriteFile(files, pathOut, r.contigs)
    /\ trace' = Append(trace, Ev("assemble", g'))
    /\ pc' = "check_contigs"
    /\ UNCHANGED <<opt, k, pathIn, pathOut, numLoaded, numRemoved,
                   sweep, fatal, calls, written, user, mvars>>

\* Zero contigs taken for an ordinary result: assemble() returns.
NoContigsIgnored ==
    /\ pc = "check_contigs"
    /\ nContigs = 0
    /\ k' = (k + opt.kStep) % UMod
    /\ pc' = "main"
    /\ UNCHANGED <<opt, pathIn, pathOut, g, numLoaded, nContigs, numRemoved,
                   sweep, files, fatal, calls, trace, written, user, mvars>>

\* Lines 122-125: "error: no contigs assembled".
NoContigs ==
    /\ pc = "check_contigs"
    /\ nContigs = 0
    /\ fatal' = "FatalNoContigs"
    /\ pc' = "exit_failure"
    /\ UNCHANGED <<opt, k, pathIn, pathOut, g, numLoaded, nContigs, numRemoved,
                   sweep, files, calls, trace, written, user, mvars>>

\* The subtraction of line 128 with its operands exchanged.
ReturnSwapped ==
    /\ pc = "check_contigs"
    /\ nContigs # 0
    /\ numRemoved' = (size(g) - numLoaded) % Pow2(SizeBits)
    /\ k' = (k + opt.kStep) % UMod
    /\ pc' = "main"
    /\ UNCHANGED <<opt, pathIn, pathOut, g, numLoaded, nContigs,
                   sweep, files, fatal, calls, trace, written, user, mvars>>

\* Lines 127-132, the return of assemble() and the k += kStep of line 161.
Return ==
    /\ pc = "check_contigs"
    /\ nContigs # 0
    /\ numRemoved' = (numLoaded - size(g)) % Pow2(SizeBits)
    /\ k' = (k + opt.kStep) % UMod
    /\ pc' = "main"
    /\ UNCHANGED <<opt, pathIn, pathOut, g, numLoaded, nContigs,
                   sweep, files, fatal, calls, trace, written, user, mvars>>

Next ==
    \/ MainLoopEnter
    \/ MainLoopExit
    \/ Load
    \/ NoUsableSequence
    \/ SetCoverageParameters
    \/ GenerateAdjacency
    \/ ErodeFirst
    \/ SkipErode
    \/ ErodeAssert
    \/ ErodeCleanup
    \/ Trim
    \/ TrimCleanup
    \/ removeLowCoverageContigs
    \/ WipeFlag
    \/ CoverageCleanup
    \/ SkipCoverage
    \/ popBubbles
    \/ SkipBubbles
    \/ write_graph
    \/ MarkAmbiguous
    \/ OpenWriter
    \/ Extract
    \/ NoContigs
    \/ Return

Spec == Init /\ [][Next]_vars

\* The same behaviours, with every enabled step of the driver eventually
\* taken: the process is a single thread that runs until it returns or exits.
FairSpec == LiveInit /\ [][Next]_vars /\ WF_vars(Next)

\* ------------------------------------------------------------ abyss-align

\* The number of read pairs of a run and the length of the vector
\* alignOverlap returns.
MaxPairs == 2
MaxCands == 3

\* The fill characters of lines 117 and 118, 'N' and '#': a base and a
\* quality that no read holds.
FillBase == 4
FillQual == 0

Reverse(s) == [ i \in 1 .. Len(s) |-> s[Len(s) + 1 - i] ]
reverseComplement(s) == [ i \in 1 .. Len(s) |-> 3 - s[Len(s) + 1 - i] ]
Max(a, b) == IF a >= b THEN a ELSE b

\* The read pairs of the input files: ACG with rising qualities, paired with
\* ACG, AAG or CG (reverse complements CGT, CTT, CG) at every uniform quality
\* and at rising qualities.
QualVals == {1, 2, 3}
Ramp(n) == [ i \in 1 .. n |-> i ]
Quals(n) == { [ i \in 1 .. n |-> q ] : q \in QualVals } \cup {Ramp(n)}
ReadPairs ==
    { <<[id |-> 1, seq |-> <<0, 1, 2>>, qual |-> Ramp(3)],
        [id |-> 1, seq |-> s, qual |-> q]>> :
        s \in {<<0, 1, 2>>, <<0, 0, 2>>}, q \in Quals(3) }
    \cup
    { <<[id |-> 1, seq |-> <<0, 1, 2>>, qual |-> Ramp(3)],
        [id |-> 1, seq |-> <<1, 2>>, qual |-> q]>> : q \in Quals(2) }

MergeOptions == [ min_matches : {1, 2}, identity : {<<1, 2>>, <<9, 10>>} ]

\* The overlap records alignOverlap may return for a pair: the end-to-end
\* overlap of every length with its number of matching bases, and two
\* alignments with a gap, one consistent with its offset on the first read
\* only and one with its offset on the second read only.
Agree(s1, h, ol) ==
    Cardinality({ i \in 1 .. ol : s1[Len(s1) - ol + i] = h[i] })
Overlap(t, h, l, m) ==
    [overlap_t_pos |-> t, overlap_h_pos |-> h, length |-> l, overlap_match |-> m]
Candidates(r1, r2) ==
    { Overlap(Len(r1.seq) - ol, ol - 1, ol,
              Agree(r1.seq, reverseComplement(r2.seq), ol)) :
        ol \in 1 .. Min(Len(r1.seq), Len(r2.seq)) }
    \cup { Overlap(Len(r1.seq) - 2, 0, 2, 2), Overlap(Len(r1.seq) - 1, 1, 2, 2) }
CandLists(C) ==
    { v \in UNION { [1 .. n -> C] : n \in 0 .. MaxCands } :
        \A i, j \in 1 .. Len(v) : i # j => v[i] # v[j] }

Inc(st, f) == [st EXCEPT ![f] = (@ + 1) % UMod]

\* The choice that keeps the base of read 1 on equal qualities.
bestBaseTieFirst(a, b, qa, qb) == IF qa >= qb THEN a ELSE b

\* Lines 95-97.
bestBase(a, b, qa, qb) == IF qa > qb THEN a ELSE b

\* std::copy of src[from, to) to out[dest, ...), offsets counted from 0; a
\* write past the end of out is not made.
Copy(out, src, from, to, dest) ==
    [ j \in 1 .. Len(out) |->
        IF dest < j /\ j <= dest + (to - from) /\ from + (j - dest) <= Len(src)
        THEN src[from + (j - dest)] ELSE out[j] ]
InRange(out, src, from, to, dest) ==
    /\ from <= to /\ to <= Len(src)
    /\ dest + (to - from) <= Len(out)

\* Lines 102-149. ok: the assertions of lines 119, 133 and 135 hold and no
\* copy leaves its ranges; out: the merged record.
mergeReads(overlap, r1, r2) ==
    LET ol == overlap.length
        seq1 == r1.seq
        qual1 == r1.qual
        rc_seq2 == reverseComplement(r2.seq)
        rc_qual2 == Reverse(r2.qual)
        out_len == overlap.overlap_t_pos + ol + Len(rc_seq2)
                      - overlap.overlap_h_pos - 1
        fill_seq == [ j \in 1 .. out_len |-> FillBase ]
        fill_qual == [ j \in 1 .. out_len |-> FillQual ]
        seq_a == Copy(fill_seq, seq1, 0, overlap.overlap_t_pos, 0)
        seq_b == Copy(seq_a, rc_seq2, overlap.overlap_h_pos + 1, Len(rc_seq2),
                      overlap.overlap_t_pos + ol)
        qual_a == Copy(fill_qual, qual1, 0, overlap.overlap_t_pos, 0)
        qual_b == Copy(qual_a, rc_qual2, ol, Len(rc_qual2), Len(seq1))
        ok == /\ out_len >= 0
              /\ out_len >= Len(seq1) \/ out_len >= Len(rc_seq2)
              /\ InRange(fill_seq, seq1, 0, overlap.overlap_t_pos, 0)
              /\ InRange(seq_a, rc_seq2, overlap.overlap_h_pos + 1, Len(rc_seq2),
                         overlap.overlap_t_pos + ol)
              /\ InRange(fill_qual, qual1, 0, overlap.overlap_t_pos, 0)
              /\ InRange(qual_a, rc_qual2, ol, Len(rc_qual2), Len(seq1))
              /\ \A i \in 0 .. (ol - 1) :
                    /\ Len(seq1) - ol + i >= 0
                    /\ Len(seq1) - ol + i < Len(seq1)
                    /\ i < Len(rc_seq2)
                    /\ Len(seq1) - ol + i < out_len
        InOverlap(j) == Len(seq1) - ol < j /\ j <= Len(seq1)
        a(j) == seq1[j]
        b(j) == rc_seq2[j - (Len(seq1) - ol)]
        qa(j) == qual1[j]
        qb(j) == rc_qual2[j - (Len(seq1) - ol)]
    IN  IF ~ok THEN [ok |-> FALSE, out |-> NoRecord]
        ELSE [ok  |-> TRUE,
              out |-> [id   |-> r1.id,
                       seq  |-> [ j \in 1 .. out_len |->
                                   IF InOverlap(j)
                                   THEN IF a(j) = b(j) THEN a(j)
                                        ELSE bestBase(a(j), b(j), qa(j), qb(j))
                                   ELSE seq_b[j] ],
                       qual |-> [ j \in 1 .. out_len |->
                                   IF InOverlap(j)
                                   THEN IF a(j) = b(j) THEN Max(qa(j), qb(j))
                                        ELSE Min(qa(j), qb(j))
                                   ELSE qual_b[j] ]]]

\* An overlap accepted whenever it is consistent with the first read.
isGaplessFirstRead(o, s) == o.length = Len(s) - o.overlap_t_pos

\* Lines 151-154.
isGapless(o, s) ==
    /\ o.length = Len(s) - o.overlap_t_pos
    /\ o.length = o.overlap_h_pos + 1

\* The tests of lines 167, 177 and 187. opt::identity is a fraction here;
\* the float 0.9 lies below 9/10 by less than 3e-8, which no match/length of
\* a read separates from 9/10.
Rejected(o, stage, rec, mo) ==
    CASE stage = "matches" -> o.overlap_match < mo.min_matches
      [] stage = "pid"     -> o.overlap_match * mo.identity[2] < mo.identity[1] * o.length
      [] stage = "gapless" -> ~isGapless(o, rec.seq)

RemoveAt(v, i) == [ j \in 1 .. (Len(v) - 1) |-> IF j < i THEN v[j] ELSE v[j + 1] ]

\* One loop of lines 165-169, 175-179 or 185-189, with the iterator it as an
\* offset from begin(): overlaps.erase(it--) followed by the it++ of the
\* loop leaves the offset where it was. ub: some erase(it--) found it at
\* begin(), and decremented it before the first element.
RECURSIVE EraseLoop(_, _, _, _, _)
EraseLoop(v, it, stage, rec, mo) ==
    IF it = Len(v) THEN [v |-> v, ub |-> FALSE]
    ELSE IF Rejected(v[it + 1], stage, rec, mo)
         THEN LET r == EraseLoop(RemoveAt(v, it + 1), it, stage, rec, mo)
              IN  [v |-> r.v, ub |-> r.ub \/ it = 0]
         ELSE EraseLoop(v, it + 1, stage, rec, mo)

\* The filter that counts no pair as rejected for an indel.
filterAlignmentsNoIndel(ov, rec, st, mo) ==
    IF ov = <<>> THEN [overlaps |-> ov, stats |-> Inc(st, "no_alignment"), ub |-> FALSE]
    ELSE LET m == EraseLoop(ov, 0, "matches", rec, mo)
         IN  IF m.v = <<>>
             THEN [overlaps |-> m.v, stats |-> Inc(st, "low_matches"), ub |-> m.ub]
             ELSE LET p == EraseLoop(m.v, 0, "pid", rec, mo)
                  IN  IF p.v = <<>>
                      THEN [overlaps |-> p.v, stats |-> Inc(st, "pid_low"),
                            ub |-> m.ub \/ p.ub]
                      ELSE LET gl == EraseLoop(p.v, 0, "gapless", rec, mo)
                           IN  [overlaps |-> gl.v, stats |-> st,
                                ub |-> m.ub \/ p.ub \/ gl.ub]

\* Lines 156-194.
filterAlignments(ov, rec, st, mo) ==
    IF ov = <<>> THEN [overlaps |-> ov, stats |-> Inc(st, "no_alignment"), ub |-> FALSE]
    ELSE LET m == EraseLoop(ov, 0, "matches", rec, mo)
         IN  IF m.v = <<>>
             THEN [overlaps |-> m.v, stats |-> Inc(st, "low_matches"), ub |-> m.ub]
             ELSE LET p == EraseLoop(m.v, 0, "pid", rec, mo)
                  IN  IF p.v = <<>>
                      THEN [overlaps |-> p.v, stats |-> Inc(st, "pid_low"),
                            ub |-> m.ub \/ p.ub]
                      ELSE LET gl == EraseLoop(p.v, 0, "gapless", rec, mo)
                           IN  IF gl.v = <<>>
                               THEN [overlaps |-> gl.v, stats |-> Inc(st, "has_indel"),
                                     ub |-> m.ub \/ p.ub \/ gl.ub]
                               ELSE [overlaps |-> gl.v, stats |-> st,
                                     ub |-> m.ub \/ p.ub \/ gl.ub]

\* The assembler is not running.
DriverOff ==
    /\ pc = "off"
    /\ opt = <<>>
    /\ user = <<>>
    /\ k = 0
    /\ pathIn = NoPath
    /\ pathOut = NoPath
    /\ g = <<>>
    /\ numLoaded = 0
    /\ nContigs = 0
    /\ numRemoved = 0
    /\ sweep = <<0, 0>>
    /\ files = <<>>
    /\ fatal = "none"
    /\ calls = <<>>
    /\ trace = <<>>
    /\ written = {}

\* main() of abyss-align up to the call of alignFiles at line 310.
MergeInit ==
    /\ DriverOff
    /\ mpc = "read"
    /\ mopt \in MergeOptions
    /\ stats = ZeroStats
    /\ rec1 = NoRecord
    /\ rec2 = NoRecord
    /\ overlaps = <<>>
    /\ cands = <<>>
    /\ last = [kind |-> "none"]
    /\ pairs = 0

\* Lines 217-223: a pair is read and aligned.
ReadPair ==
    /\ mpc = "read"
    /\ pairs < MaxPairs
    /\ \E p \in ReadPairs : \E v \in CandLists(Candidates(p[1], p[2])) :
          /\ rec1' = p[1]
          /\ rec2' = p[2]
          /\ overlaps' = v
          /\ cands' = v
    /\ stats' = Inc(stats, "total_reads")
    /\ pairs' = pairs + 1
    /\ mpc' = "filter"
    /\ UNCHANGED <<mopt, last, dvars>>

\* Lines 217 and 248-253: the input is exhausted.
EndOfInput ==
    /\ mpc = "read"
    /\ mpc' = "done"
    /\ UNCHANGED <<mopt, stats, rec1, rec2, overlaps, cands, last, pairs, dvars>>

\* Line 225. Decrementing the iterator before begin() is undefined: the
\* program goes on as with a plain pointer, or a checked iterator ends it.
FilterAlignments ==
    /\ mpc = "filter"
    /\ \E r \in {filterAlignments(overlaps, rec1, stats, mopt)} :
          \/ /\ overlaps' = r.overlaps
             /\ stats' = r.stats
             /\ mpc' = "decide"
          \/ /\ r.ub
             /\ mpc' = "abort"
             /\ UNCHANGED <<overlaps, stats>>
    /\ UNCHANGED <<mopt, rec1, rec2, cands, last, pairs, dvars>>

\* Lines 227-235: the one good alignment is merged and written.
MergePair ==
    /\ mpc = "decide"
    /\ Len(overlaps) = 1
    /\ stats' = Inc(stats, "merged_reads")
    /\ \E r \in {mergeReads(overlaps[1], rec1, rec2)} :
          IF r.ok
          THEN /\ last' = [kind |-> "merged", out |-> r.out, overlap |-> overlaps[1]]
               /\ mpc' = "written"
          ELSE /\ last' = last
               /\ mpc' = "abort"
    /\ UNCHANGED <<mopt, rec1, rec2, overlaps, cands, pairs, dvars>>

\* Lines 236-243: both reads are written to the unmerged files.
WriteUnmerged ==
    /\ mpc = "decide"
    /\ Len(overlaps) # 1
    /\ stats' = Inc(IF Len(overlaps) > 1 THEN Inc(stats, "too_many_aligns") ELSE stats,
                    "unmerged_reads")
    /\ last' = [kind |-> "unmerged", unmerged1 |-> rec1, unmerged2 |-> rec2]
    /\ mpc' = "written"
    /\ UNCHANGED <<mopt, rec1, rec2, overlaps, cands, pairs, dvars>>

\* Lines 244-247: the end of the loop body; the vector of the pair goes out
\* of scope.
LoopBack ==
    /\ mpc = "written"
    /\ overlaps' = <<>>
    /\ cands' = <<>>
    /\ last' = [kind |-> "none"]
    /\ mpc' = "read"
    /\ UNCHANGED <<mopt, stats, rec1, rec2, pairs, dvars>>

MergeNext ==
    \/ ReadPair
    \/ EndOfInput
    \/ FilterAlignments
    \/ MergePair
    \/ WriteUnmerged
    \/ LoopBack

MergeSpec == MergeInit /\ [][MergeNext]_vars

\* ------------------------------------------------------- history helpers

Ops == [ i \in 1 .. Len(trace) |-> trace[i].op ]
HasOp(o) == \E i \in 1 .. Len(trace) : trace[i].op = o
CountOp(o) == Cardinality({ i \in 1 .. Len(trace) : trace[i].op = o })
LastIdx(o) == CHOOSE i \in 1 .. Len(trace) :
                 trace[i].op = o /\ \A j \in (i + 1) .. Len(trace) : trace[j].op # o
OpsAfter(o) == SubSeq(Ops, LastIdx(o) + 1, Len(trace))
IsPrefix(p, s) == Len(p) <= Len(s) /\ SubSeq(s, 1, Len(p)) = p

\* The positions of assemble() after the coverage stage has been passed.
Stabilised ==
    pc \in {"bubbles", "write_graph", "mark", "open_writer", "extract", "check_contigs"}

\* ------------------------------------------------------------------ C1

C2_Inv ==
    HasOp("removeLowCoverageContigs") =>
        /\ opt.coverage = 0
        /\ Stabilised =>
             IsPrefix(<<"wipeFlag", "cleanup">>
                        \o (IF opt.erode > 0
                            THEN <<"erodeEnds", "erodeEnds", "cleanup">>
                            ELSE <<>>)
                        \o <<"performTrim", "cleanup">>,
                      OpsAfter("removeLowCoverageContigs"))

C2_Step ==
    (pc = "coverage" /\ opt.coverage > 0) =>
        /\ pc' = "wipe"
        /\ opt'.coverage = 0
        /\ trace' = Append(trace, Ev("removeLowCoverageContigs", g'))

C2_CoverageRatchet == []C2_Inv /\ [][C2_Step]_vars

\* Removal ran and deleted nodes, erosion re-ran, and the call has reached
\* bubble popping.
C2_Witness ==
    /\ pc = "bubbles"
    /\ HasOp("removeLowCoverageContigs")
    /\ opt.erode > 0
    /\ trace[LastIdx("removeLowCoverageContigs")].live
         < trace[LastIdx("removeLowCoverageContigs") - 1].live

\* ------------------------------------------------------------------ C3

\* C3: every call of assemble() ends, in the return after contig output or
\* in a fatal exit, and low-coverage removal (the goto erode restart) runs
\* at most once per call.
C3_AssembleTerminates ==
    /\ [](CountOp("removeLowCoverageContigs") <= 1)
    /\ (pc = "load") ~> (pc = "main" \/ pc = "exit_failure")

\* A call that took the restart has returned after writing its contigs.
C3_Witness ==
    /\ pc = "main"
    /\ CountOp("removeLowCoverageContigs") = 1
    /\ HasOp("assemble")
    /\ nContigs > 0

\* ------------------------------------------------------------------ C4

\* C4: an empty store after loading and zero extracted contigs each end the
\* process with failure; no step follows the exit, so no assemble() call for
\* a later k is started; in the empty-after-load case nothing but loading
\* has run.
C4_Inv ==
    /\ fatal # "none" => pc = "exit_failure"
    /\ fatal = "FatalEmptyGraph" =>
         \A i \in 1 .. Len(trace) : trace[i].op \in {"loadSeed", "loadReads"}

C4_Step ==
    /\ pc # "exit_failure"
    /\ (pc = "empty_check" /\ empty(g)) =>
          (pc' = "exit_failure" /\ fatal' = "FatalEmptyGraph")
    /\ (pc = "check_contigs" /\ nContigs = 0) =>
          (pc' = "exit_failure" /\ fatal' = "FatalNoContigs")
    /\ calls' # calls => fatal = "none"

C4_FatalEndsRun == []C4_Inv /\ [][C4_Step]_vars

\* The run ended on an empty store while a larger k was still to come.
C4_Witness ==
    /\ pc = "exit_failure"
    /\ fatal = "FatalEmptyGraph"
    /\ k < opt.kMax
    /\ opt.kStep > 0

\* ------------------------------------------------------------------ C5

\* C5: on a run in which some cleanup leaves zero live nodes, no contig file
\* and no graph dump is created for that k.
C5_NoFileOnEmptyGraph ==
    (\E i \in 1 .. Len(trace) : trace[i].op = "cleanup" /\ trace[i].live = 0)
        => written = {}

\* ------------------------------------------------------------------ C6

\* C6: a run without a fatal error ends with the last assemble() call being
\* the one for k = kMax, writing to the final contig path.
C6_FinalOutput ==
    pc = "done" =>
        /\ calls # <<>>
        /\ calls[Len(calls)].k = opt.kMax
        /\ calls[Len(calls)].pathOut = contigsPath

\* ------------------------------------------------------------------ C7

\* C7: assemble() is called once for each of kMin, kMin + kStep, ... not
\* exceeding kMax, in strictly ascending order, and the loop then ends.
C7_KList ==
    /\ \A i \in 1 .. Len(calls) :
          /\ calls[i].k = opt.kMin + (i - 1) * opt.kStep
          /\ calls[i].k <= opt.kMax
          /\ i > 1 => calls[i].k > calls[i - 1].k
    /\ pc = "done" => opt.kMin + Len(calls) * opt.kStep > opt.kMax

\* ------------------------------------------------------------------ C8

\* C8: the call for k = kMin is given no seed file; the call for every other
\* k is given the contig file the preceding call wrote; every call loads the
\* read files again into a fresh store.
C8_SeedChaining ==
    /\ \A i \in 1 .. Len(calls) :
          IF calls[i].k = opt.kMin
          THEN calls[i].pathIn = NoPath
          ELSE /\ i > 1
               /\ calls[i].pathIn # NoPath
               /\ calls[i].pathIn = calls[i - 1].pathOut
    /\ pc = "load" => empty(g)
    /\ pc = "empty_check" =>
          /\ HasOp("loadReads")
          /\ HasOp("loadSeed") <=> pathIn # NoPath

\* ------------------------------------------------------------------ C9

\* C9 as stated: at the start of every assemble() call a parameter the user
\* pinned has the user's value, and after the first k an unpinned one has
\* its k-dependent default.
C9_ResetUnlessPinned ==
    pc = "load" =>
        /\ IF "erode" \in user.pinned THEN opt.erode = user.erode
           ELSE k > opt.kMin => opt.erode = UMax
        /\ IF "trimLen" \in user.pinned THEN opt.trimLen = user.trimLen
           ELSE k > opt.kMin => opt.trimLen = k
        /\ IF "bubbleLen" \in user.pinned THEN opt.bubbleLen = user.bubbleLen
           ELSE k > opt.kMin => opt.bubbleLen = (3 * k) % UMod

\* C9 as amended: entering an iteration with k > kMin resets erode and
\* erodeStrand to automatic, coverage to automatic, trimLen to k and
\* bubbleLen to 3 * k whatever the user gave; entering any other iteration
\* leaves the five options as they are.
C9_Step ==
    (pc = "main" /\ pc' = "load") =>
        IF k > opt.kMin
        THEN /\ opt'.erode = UMax
             /\ opt'.erodeStrand = UMax
             /\ opt'.coverage = -1
             /\ opt'.trimLen = k
             /\ opt'.bubbleLen = (3 * k) % UMod
        ELSE /\ opt'.erode = opt.erode
             /\ opt'.erodeStrand = opt.erodeStrand
             /\ opt'.coverage = opt.coverage
             /\ opt'.trimLen = opt.trimLen
             /\ opt'.bubbleLen = opt.bubbleLen

C9_ResetUnconditional == [][C9_Step]_vars

\* A call for a later k starts with a pinned trim length and a pinned bubble
\* length overwritten.
C9_Witness ==
    /\ pc = "load"
    /\ k > opt.kMin
    /\ user.pinned = {"erode", "trimLen", "bubbleLen"}
    /\ opt.trimLen # user.trimLen
    /\ opt.bubbleLen # user.bubbleLen
    /\ opt.erode # user.erode

\* ----------------------------------------------------------------- C10

\* The scenario: one read, no seed, every k-mer of the read loaded once,
\* erosion threshold 2, and the assemble() call over it has ended.
TheRead == opt.inFiles[1]
\* The k of the latest assemble() call (main's k has moved on after a return).
CallK == calls[Len(calls)].k
SingleReadScenario ==
    /\ Len(opt.inFiles) = 1
    /\ calls # <<>>
    /\ pathIn = NoPath
    /\ Cardinality(Kmers(TheRead, CallK)) = Len(TheRead) - CallK + 1
    /\ opt.erode = 2
    /\ pc \in {"exit_failure", "main"}

\* No (k-1)-mer occurs twice in the read: its k-mers form an open chain.
OpenChain ==
    /\ CallK >= 1
    /\ Kmers(TheRead, CallK) # {}
    /\ Cardinality({ SubSeq(TheRead, i, i + CallK - 2) : i \in 1 .. (Len(TheRead) - CallK + 2) })
          = Len(TheRead) - CallK + 2

ErosionEmptied ==
    \E i \in 1 .. Len(trace) : trace[i].op = "erodeEnds" /\ trace[i].live = 0

\* C10 as stated: the assembly over the single read yields FatalEmptyGraph.
C10_YieldsFatalEmptyGraph ==
    (SingleReadScenario /\ Kmers(TheRead, CallK) # {}) =>
        (ErosionEmptied /\ fatal = "FatalEmptyGraph")

\* C10 as amended: when the read's k-mers form an open chain erosion removes
\* them all; whenever erosion removes them all the assembly ends with
\* FatalNoContigs; FatalEmptyGraph is raised only for a read with no k-mer.
C10_YieldsFatalNoContigs ==
    SingleReadScenario =>
        /\ OpenChain => ErosionEmptied
        /\ ErosionEmptied => fatal = "FatalNoContigs"
        /\ fatal = "FatalEmptyGraph" <=> Kmers(TheRead, CallK) = {}

\* The read ACGT (or another open chain) was eroded away and the run ended
\* on the missing contigs.
C10_Witness ==
    /\ SingleReadScenario
    /\ OpenChain
    /\ Len(TheRead) - CallK + 1 >= 2
    /\ ErosionEmptied
    /\ fatal = "FatalNoContigs"

\* ----------------------------------------------------------------- C11

\* An alignment with enough matches, enough identity and no gap, for the
\* pair and the options at hand.
Good(o) ==
    /\ o.overlap_match >= mopt.min_matches
    /\ o.overlap_match * mopt.identity[2] >= mopt.identity[1] * o.length
    /\ o.length = Len(rec1.seq) - o.overlap_t_pos
    /\ o.length = o.overlap_h_pos + 1
GoodOnes == SelectSeq(cands, Good)

\* What filtering and the decision do when the program gets through them.
MergeDecision ==
    /\ mpc = "decide" => overlaps = GoodOnes
    /\ mpc = "written" =>
          /\ last.kind = "merged" <=> Len(GoodOnes) = 1
          /\ last.kind # "merged" =>
                /\ last.kind = "unmerged"
                /\ last.unmerged1 = rec1
                /\ last.unmerged2 = rec2

\* C11: filtering keeps exactly the alignments with at least min_matches
\* matches, at least the minimum identity and no gap, wherever they stand in
\* the vector; every pair read is written, to the merged output when exactly
\* one alignment is kept and unchanged to the two unmerged outputs otherwise.
C11_MergeDecision == mpc # "abort" /\ MergeDecision

\* ----------------------------------------------------------------- C12

MergedPair == mpc = "written" /\ last.kind = "merged"
Higher(a, b) == IF a >= b THEN a ELSE b
Lower(a, b) == IF a <= b THEN a ELSE b
\* Position i of the overlap: the base and quality of read 1, those of the
\* reverse complement of read 2, and the merged base and quality there.
At1(i) == last.overlap.overlap_t_pos + i
Base1(i) == rec1.seq[At1(i)]
Qual1(i) == rec1.qual[At1(i)]
Base2(i) == reverseComplement(rec2.seq)[i]
Qual2(i) == Reverse(rec2.qual)[i]

\* C12: at every position of the overlap, bases that agree give that base
\* with the higher of the two qualities; bases that disagree give the base
\* of the higher quality, the base of the reverse-complemented second read
\* when the qualities are equal, with the lower of the two qualities.
C12_OverlapResolution ==
    MergedPair =>
        \A i \in 1 .. last.overlap.length :
            /\ Base1(i) = Base2(i) =>
                  /\ last.out.seq[At1(i)] = Base1(i)
                  /\ last.out.qual[At1(i)] = Higher(Qual1(i), Qual2(i))
            /\ Base1(i) # Base2(i) =>
                  /\ Qual1(i) > Qual2(i) => last.out.seq[At1(i)] = Base1(i)
                  /\ Qual1(i) < Qual2(i) => last.out.seq[At1(i)] = Base2(i)
                  /\ Qual1(i) = Qual2(i) => last.out.seq[At1(i)] = Base2(i)
                  /\ last.out.qual[At1(i)] = Lower(Qual1(i), Qual2(i))

\* A merged pair whose overlap holds a position where the bases agree with
\* different qualities and one where they disagree with equal qualities.
C12_Witness ==
    /\ MergedPair
    /\ \E i \in 1 .. last.overlap.length :
          Base1(i) = Base2(i) /\ Qual1(i) # Qual2(i)
    /\ \E i \in 1 .. last.overlap.length :
          Base1(i) # Base2(i) /\ Qual1(i) = Qual2(i)

\* ----------------------------------------------------------------- C13

LoadOps == {"loadSeed", "loadReads"}
RemovalOps == {"erodeEnds", "performTrim", "removeLowCoverageContigs", "popBubbles"}
\* The positions of assemble() past the adjacency generation of line 94.
PastAdjacency ==
    pc \in {"erode", "erode_assert", "erode_cleanup", "trim", "trim_cleanup",
            "coverage", "wipe", "coverage_cleanup", "bubbles", "write_graph",
            "mark", "open_writer", "extract", "check_contigs"}

\* C13: in each assemble() call generateAdjacency runs exactly once (at most
\* once in a call that exits on the empty store), over a non-empty store,
\* strictly after all loading and strictly before every erosion, trimming,
\* coverage-removal and bubble-popping step, the steps of the restart from
\* erosion included.
C13_AdjacencyOnce ==
    /\ CountOp("generateAdjacency") <= 1
    /\ PastAdjacency => CountOp("generateAdjacency") = 1
    /\ HasOp("generateAdjacency") => numLoaded > 0
    /\ \A i \in 1 .. Len(trace) :
          /\ trace[i].op \in LoadOps =>
                \A j \in 1 .. Len(trace) : trace[j].op = "generateAdjacency" => i < j
          /\ trace[i].op \notin LoadOps \cup {"generateAdjacency"} =>
                \E j \in 1 .. (i - 1) : trace[j].op = "generateAdjacency"

\* A call that restarted from erosion after coverage removal has reached the
\* bubble stage, the seed contigs of an earlier k loaded before the reads.
C13_Witness ==
    /\ pc = "bubbles"
    /\ HasOp("loadSeed")
    /\ HasOp("removeLowCoverageContigs")
    /\ CountOp("performTrim") = 2
    /\ CountOp("generateAdjacency") = 1

\* ----------------------------------------------------------------- C14

\* The operations of the erosion stage of lines 96-102 under the options of
\* the current call.
ErosionOps == IF opt.erode > 0 THEN <<"erodeEnds", "erodeEnds", "cleanup">> ELSE <<>>
FirstIdx(o) == CHOOSE i \in 1 .. Len(trace) :
                  trace[i].op = o /\ \A j \in 1 .. (i - 1) : trace[j].op # o

\* C14: bubble popping runs at most once per call, only when opt::bubbleLen
\* is positive and the coverage threshold is not; a trimming stage with its
\* cleanup directly precedes it, and when coverage removal ran in this call
\* the erosion stage and the trimming stage, each with its cleanup, have run
\* between that removal and the popping. With bubbleLen 0 no popping occurs.
C14_BubblesOnceWhenStable ==
    /\ CountOp("popBubbles") <= 1
    /\ opt.bubbleLen = 0 => ~HasOp("popBubbles")
    /\ HasOp("popBubbles") =>
          /\ opt.bubbleLen > 0
          /\ ~(opt.coverage > 0)
          /\ FirstIdx("popBubbles") >= 3
          /\ SubSeq(Ops, FirstIdx("popBubbles") - 2, FirstIdx("popBubbles") - 1)
                = <<"performTrim", "cleanup">>
          /\ HasOp("removeLowCoverageContigs") =>
                SubSeq(Ops, LastIdx("removeLowCoverageContigs") + 1,
                       FirstIdx("popBubbles") - 1)
                   = <<"wipeFlag", "cleanup">> \o ErosionOps
                       \o <<"performTrim", "cleanup">>

\* Bubbles were popped in a call in which coverage removal ran and erosion
\* was enabled.
C14_Witness ==
    /\ pc = "write_graph"
    /\ HasOp("popBubbles")
    /\ HasOp("removeLowCoverageContigs")
    /\ opt.erode > 0
    /\ opt.bubbleLen > 0

\* ----------------------------------------------------------------- C15

\* C15: no node carries SF_MARK_SENSE or SF_MARK_ANTISENSE when a pass
\* begins: at the erode label (on the restart after low-coverage removal as
\* on the first entry), before trimming, the coverage stage, bubble popping,
\* the graph dump and the final markAmbiguous.
C15_NoStaleMarks ==
    pc \in {"erode", "erode_assert", "erode_cleanup", "trim", "trim_cleanup",
            "coverage", "bubbles", "write_graph", "mark"}
        => Marked(g) = {}

\* The pipeline restarts from erosion after a low-coverage removal that left
\* marked nodes in the store.
C15_Witness ==
    /\ pc = "erode"
    /\ \E i \in 1 .. Len(trace) :
          trace[i].op = "removeLowCoverageContigs" /\ trace[i].marked > 0
    /\ Live(g) # {}
    /\ Marked(g) = {}

\* ----------------------------------------------------------------- C16

\* The passes that read the graph.
PassOps == RemovalOps \cup {"write_graph", "markAmbiguous", "assemble"}
\* Entry i of the trace is a pass that removed nodes.
Removed(i) ==
    /\ trace[i].op \in RemovalOps
    /\ i > 1
    /\ trace[i].live < trace[i - 1].live

\* Entry j of the trace begins a pass: the verification sweep of line 100
\* belongs to the erosion pass that the sweep of line 99 began.
NextPass(j) ==
    /\ trace[j].op \in PassOps
    /\ ~(trace[j].op = "erodeEnds" /\ j > 1 /\ trace[j - 1].op = "erodeEnds")

\* C16: every cleanup() sits between two passes, and each pass that removed
\* nodes is followed by a cleanup() before the next pass that reads the
\* graph.
C16_CompactionPlacement ==
    /\ \A i \in 1 .. Len(trace) :
          trace[i].op = "cleanup" =>
             i > 1 /\ trace[i - 1].op \in {"erodeEnds", "performTrim", "wipeFlag"}
    /\ \A i \in 1 .. Len(trace) : \A j \in (i + 1) .. Len(trace) :
          (Removed(i) /\ NextPass(j)) =>
             \E c \in (i + 1) .. (j - 1) : trace[c].op = "cleanup"

\* ----------------------------------------------------------------- C17

\* C17: write_graph is reached only from the bubble stage, with the coverage
\* threshold not positive; it writes at most once per call, no removal pass
\* follows it, it does not change the store, and with an empty path it
\* changes nothing at all.
C17_Inv ==
    /\ CountOp("write_graph") <= 1
    /\ HasOp("write_graph") =>
          /\ opt.graphPath # NoPath
          /\ ~(opt.coverage > 0)
          /\ \A i \in (FirstIdx("write_graph") + 1) .. Len(trace) :
                /\ trace[i].op \notin RemovalOps \cup {"cleanup", "wipeFlag"}
                /\ trace[i].live = trace[FirstIdx("write_graph")].live
    /\ opt.graphPath = NoPath => GraphDot \notin DOMAIN files

C17_Step ==
    /\ pc = "write_graph" =>
          /\ g' = g
          /\ pc' = "mark"
          /\ opt.graphPath = NoPath => (files' = files /\ trace' = trace)
          /\ opt.graphPath # NoPath =>
                (files'[opt.graphPath] = Live(g) /\ CountOp("write_graph") = 0)
    /\ (pc # "write_graph" /\ pc' = "write_graph") =>
          (pc = "bubbles" /\ ~(opt.coverage > 0))

C17_GraphSink == []C17_Inv /\ [][C17_Step]_vars

\* The graph was dumped in a call that restarted from erosion after coverage
\* removal.
C17_Witness ==
    /\ pc = "mark"
    /\ HasOp("write_graph")
    /\ HasOp("removeLowCoverageContigs")
    /\ GraphDot \in DOMAIN files
    /\ files[GraphDot] # {}

\* ----------------------------------------------------------------- C18

\* C18: from the end of loading on the size of the store never grows, it
\* never exceeds numLoaded, and the subtraction of line 128 does not wrap
\* around: numRemoved is numLoaded - numAssembled.
C18_Inv ==
    /\ \A i \in 1 .. Len(trace) : \A j \in (i + 1) .. Len(trace) :
          trace[i].op \notin LoadOps => trace[j].size <= trace[i].size
    /\ \A i \in 1 .. Len(trace) : \A j \in (i + 1) .. Len(trace) :
          trace[i].op = "loadReads" => trace[j].size <= trace[i].size
    /\ (HasOp("loadReads") /\ pc # "load") => size(g) <= numLoaded

C18_Step ==
    (pc = "check_contigs" /\ pc' = "main") =>
        /\ size(g) <= numLoaded
        /\ numRemoved' = numLoaded - size(g)

C18_SizeNeverGrows == []C18_Inv /\ [][C18_Step]_vars

\* assemble() returned after its passes removed nodes from the store.
C18_Witness ==
    /\ pc = "main"
    /\ calls # <<>>
    /\ numRemoved > 0
    /\ numRemoved = numLoaded - size(g)
    /\ \E i \in 1 .. Len(trace) : Removed(i)

\* ----------------------------------------------------------------- C19

Rejections ==
    stats.no_alignment + stats.low_matches + stats.pid_low + stats.has_indel
        + stats.too_many_aligns

\* The outcome of the pair at hand: the first filter stage that leaves no
\* alignment, else too many alignments, else the merge.
EnoughMatches(o) == o.overlap_match >= mopt.min_matches
EnoughIdentity(o) ==
    EnoughMatches(o) /\ o.overlap_match * mopt.identity[2] >= mopt.identity[1] * o.length
Outcome ==
    IF cands = <<>> THEN "no_alignment"
    ELSE IF SelectSeq(cands, EnoughMatches) = <<>> THEN "low_matches"
    ELSE IF SelectSeq(cands, EnoughIdentity) = <<>> THEN "pid_low"
    ELSE IF GoodOnes = <<>> THEN "has_indel"
    ELSE IF Len(GoodOnes) > 1 THEN "too_many_aligns"
    ELSE "merged_reads"
FilterOutcomes == {"no_alignment", "low_matches", "pid_low", "has_indel"}

\* stats' is stats with the counters of F raised by one.
Raised(F) ==
    \A f \in DOMAIN stats : stats'[f] = IF f \in F THEN stats[f] + 1 ELSE stats[f]

C19_Inv ==
    mpc \in {"read", "written", "done"} =>
        /\ stats.total_reads = pairs
        /\ stats.total_reads = stats.merged_reads + stats.unmerged_reads
        /\ stats.unmerged_reads = Rejections

C19_Step ==
    /\ (mpc = "read" /\ mpc' = "filter") => Raised({"total_reads"})
    /\ (mpc = "filter" /\ mpc' = "decide") =>
          Raised({Outcome} \cap FilterOutcomes)
    /\ (mpc = "decide" /\ mpc' = "written") =>
          Raised(IF Outcome = "merged_reads" THEN {"merged_reads"}
                 ELSE IF Outcome = "too_many_aligns"
                      THEN {"too_many_aligns", "unmerged_reads"}
                      ELSE {"unmerged_reads"})
    /\ (mpc = "written" \/ mpc' = "done") => stats' = stats

\* C19: between pairs total_reads = merged_reads + unmerged_reads and
\* unmerged_reads = no_alignment + low_matches + pid_low + has_indel +
\* too_many_aligns; every pair handled raises total_reads and exactly one
\* outcome, the first filter stage that leaves its vector empty for a pair
\* rejected by the filter.
C19_StatsInvariant == []C19_Inv /\ [][C19_Step]_vars

\* A run has ended after a merged pair and a pair rejected for its indel.
C19_Witness ==
    /\ mpc = "done"
    /\ stats.total_reads = 2
    /\ stats.merged_reads = 1
    /\ stats.has_indel = 1

\* ----------------------------------------------------------------- C20

C20_Inv ==
    MergedPair =>
        LET ol == last.overlap.length
            n1 == Len(rec1.seq)
            n2 == Len(rec2.seq)
            o  == last.out
        IN  /\ Len(o.seq) = n1 + n2 - ol
            /\ Len(o.qual) = n1 + n2 - ol
            /\ \A j \in 1 .. (n1 - ol) :
                  o.seq[j] = rec1.seq[j] /\ o.qual[j] = rec1.qual[j]
            /\ \A j \in (n1 - ol + 1) .. n1 :
                  /\ o.seq[j] \in {rec1.seq[j], reverseComplement(rec2.seq)[j - (n1 - ol)]}
                  /\ o.qual[j] \in {rec1.qual[j], Reverse(rec2.qual)[j - (n1 - ol)]}
            /\ \A j \in (n1 + 1) .. (n1 + n2 - ol) :
                  /\ o.seq[j] = reverseComplement(rec2.seq)[j - (n1 - ol)]
                  /\ o.qual[j] = Reverse(rec2.qual)[j - (n1 - ol)]
            /\ \A j \in 1 .. Len(o.seq) : o.seq[j] # FillBase
            /\ \A j \in 1 .. Len(o.qual) : o.qual[j] # FillQual

\* mergeReads runs to its end: none of its assertions fails.
C20_Step == (mpc = "decide" /\ Len(overlaps) = 1) => mpc' = "written"

\* C20: the merged record has a sequence and a quality string of length
\* len(read1) + len(read2) - ol: read 1's prefix before the overlap, the
\* resolved overlap, and the suffix of the reverse-complemented read 2; no
\* fill character remains and every assertion of mergeReads holds.
C20_MergeLayout == []C20_Inv /\ [][C20_Step]_vars

\* A merged pair with a prefix of read 1, an overlap of two bases and a
\* suffix of read 2.
C20_Witness ==
    /\ MergedPair
    /\ last.overlap.length = 2
    /\ Len(rec1.seq) = 3
    /\ Len(rec2.seq) = 3
    /\ Len(last.out.seq) = 4

====
